---------------------------- MODULE Spec2Model ----------------------------
(***************************************************************************)
(* The playback engine of bevy_animation: the provided methods of the      *)
(* SplineGroup trait (crates/bevy_animation/src/spline_group.rs) over a    *)
(* track-set with the fields of AnimationSplineOne (spline_groups/one.rs). *)
(*                                                                         *)
(* Numbers.  time, key times and delta_time are f32 in the source; here    *)
(* they are integers of one fixed unit, so rounding, NaN and the           *)
(* infinities are outside the model.  speed keeps its sign bit apart from  *)
(* its magnitude because f32::signum tells +0.0 from -0.0.                 *)
(* Option<f32> is a sequence: <<>> is None and <<v>> is Some(v).           *)
(***************************************************************************)
EXTENDS Integers, Sequences, FiniteSets, TLC

\* ------------------------------------------------------------------ bounds
MaxKey == 1
MaxTrackLen == 2
MaxTracks == 2
MaxSpeed == 1
MaxDelta == 1

Keys == 0..MaxKey
DeltaSet == (-1)..MaxDelta

\* the cursor is followed one largest tick beyond the key range on either
\* side, so that an advance that is not past its boundary is never cut off
MaxStep == MaxDelta * MaxSpeed
TimeRange == (0 - MaxStep)..(MaxKey + MaxStep)

\* ------------------------------------------------------------ value domains
LoopStyle == {"Once", "Loop", "PingPong"}

SeqsUpTo(S, n) == UNION {[1..k -> S] : k \in 0..n}

\* a track is its key times, front = first key, back = last key; the order
\* is whatever the owner supplied
Track == SeqsUpTo(Keys, MaxTrackLen)

\* AnimationSplineOne::spline_key_times: a vector of exactly one track
OneTrack == {<<t>> : t \in Track}

\* track-sets of any number of tracks, all without keys
EmptyGroups == {[i \in 1..n |-> <<>>] : n \in 0..MaxTracks}

\* track-sets of any number of tracks
Groups == SeqsUpTo(Track, MaxTracks)

SpeedSet == [neg : BOOLEAN, mag : 0..MaxSpeed]

SpeedVal(sp) == IF sp.neg THEN 0 - sp.mag ELSE sp.mag

\* f32::signum: 1.0 for positive numbers and +0.0, -1.0 for negative
\* numbers and -0.0
signum(sp) == IF sp.neg THEN -1 ELSE 1

None == <<>>
Some(v) == <<v>>
IsSome(o) == o # <<>>
Abs(x) == IF x < 0 THEN 0 - x ELSE x

\* tracks .. pong are the fields of the track-set.  The others record the
\* last call: lastOp its name, lastD its delta_time, pre the fields before
\* it, branch the arm advance took, panicked a failed unwrap; frozen counts
\* (up to 2) the advances so far that found the cursor past the boundary
\* under Once.
\* twin is a second track-set with the same tracks, loop_style, speed and
\* paused that receives the same calls; it is switched on in SpecTwin only.
\* query holds what the derived queries returned when last called together.
VARIABLES tracks, loop_style, time, speed, paused, pong,
          panicked, lastOp, lastD, pre, branch, frozen, twin, query

vars == <<tracks, loop_style, time, speed, paused, pong,
          panicked, lastOp, lastD, pre, branch, frozen, twin, query>>

Fields == [tracks |-> tracks, loop_style |-> loop_style, time |-> time,
           speed |-> speed, paused |-> paused, pong |-> pong]

\* --------------------------------------------------------- derived queries
is_empty_unless_all_filled(ts) ==
    LET all_not_empty == \A i \in DOMAIN ts : Len(ts[i]) > 0
    IN  ~all_not_empty

is_empty(ts) ==
    LET any_not_empty == \E i \in DOMAIN ts : Len(ts[i]) > 0
    IN  ~any_not_empty

\* filter_map(|mut iter| iter.next()): the first key of each non-empty track
RECURSIVE starts(_)
starts(ts) ==
    IF ts = <<>> THEN <<>>
    ELSE (IF Head(ts) = <<>> THEN <<>> ELSE <<Head(Head(ts))>>)
         \o starts(Tail(ts))

\* filter_map(|mut s| s.next_back()): the last key of each non-empty track
RECURSIVE ends(_)
ends(ts) ==
    IF ts = <<>> THEN <<>>
    ELSE (IF Head(ts) = <<>> THEN <<>>
          ELSE <<Head(ts)[Len(Head(ts))]>>)
         \o ends(Tail(ts))

fold_min_keeps_first(acc, s) == acc

RECURSIVE fold_min(_, _)
fold_min(acc, s) ==
    IF s = <<>> THEN acc
    ELSE fold_min(IF Head(s) < acc THEN Head(s) ELSE acc, Tail(s))

RECURSIVE fold_max(_, _)
fold_max(acc, s) ==
    IF s = <<>> THEN acc
    ELSE fold_max(IF Head(s) > acc THEN Head(s) ELSE acc, Tail(s))

start_time_zero(ts) ==
    LET s == starts(ts)
    IN  IF s = <<>> THEN Some(0) ELSE Some(fold_min(Head(s), Tail(s)))

start_time(ts) ==
    LET s == starts(ts)
    IN  IF s = <<>> THEN None ELSE Some(fold_min(Head(s), Tail(s)))

end_time(ts) ==
    LET e == ends(ts)
    IN  IF e = <<>> THEN None ELSE Some(fold_max(Head(e), Tail(e)))

duration_signed(ts) ==
    LET st == start_time(ts)
        en == end_time(ts)
    IN  IF IsSome(st) /\ IsSome(en)
        THEN Some(Head(st) - Head(en))
        ELSE None

duration(ts) ==
    LET st == start_time(ts)
        en == end_time(ts)
    IN  IF IsSome(st) /\ IsSome(en)
        THEN Some(Abs(Head(st) - Head(en)))
        ELSE None

\* ------------------------------------------------------------------ advance
advance_returns_early_unpaused(ts, p) == is_empty(ts)

advance_returns_early_paused_only(ts, p) == p

\* the early return of advance
advance_returns_early(ts, p) == is_empty(ts) \/ p

past_boundary_end_only(reversed, pg, start, end, t) ==
    IF pg THEN start > t ELSE end < t

past_boundary_not_strict(reversed, pg, start, end, t) ==
    CASE reversed /\ pg     -> end <= t
      [] reversed /\ ~pg    -> start >= t
      [] ~reversed /\ pg    -> start >= t
      [] ~reversed /\ ~pg   -> end <= t

past_boundary(reversed, pg, start, end, t) ==
    CASE reversed /\ pg     -> end < t
      [] reversed /\ ~pg    -> start > t
      [] ~reversed /\ pg    -> start > t
      [] ~reversed /\ ~pg   -> end < t

loop_time_start(reversed, start, end) == IF reversed THEN end ELSE start

pong_signum_forward(pg) == 1

pong_signum(pg) == IF pg THEN -1 ELSE 1

once_always_steps(past, t, d, sp) ==
    [time |-> t + d * SpeedVal(sp), branch |-> "step"]

\* LoopStyle::Once arm
once_arm(past, t, d, sp) ==
    IF ~past
    THEN [time |-> t + d * SpeedVal(sp), branch |-> "step"]
    ELSE [time |-> t, branch |-> "freeze"]

loop_snaps_and_steps(past, t, d, sp, restart) ==
    IF ~past
    THEN [time |-> t + d * SpeedVal(sp), branch |-> "step"]
    ELSE [time |-> restart + d * SpeedVal(sp), branch |-> "snap"]

loop_keeps_stepping(past, t, d, sp, restart) ==
    [time |-> t + d * SpeedVal(sp), branch |-> "step"]

loop_freezes(past, t, d, sp, restart) ==
    IF ~past
    THEN [time |-> t + d * SpeedVal(sp), branch |-> "step"]
    ELSE [time |-> t, branch |-> "freeze"]

\* LoopStyle::Loop arm
loop_arm(past, t, d, sp, restart) ==
    IF ~past
    THEN [time |-> t + d * SpeedVal(sp), branch |-> "step"]
    ELSE [time |-> restart, branch |-> "snap"]

pingpong_keeps_pong(past, t, d, sp, pg, start, end) ==
    IF ~past
    THEN [time |-> t + d * SpeedVal(sp) * pong_signum(pg), pong |-> pg,
          branch |-> "step"]
    ELSE [time |-> IF ~pg THEN end ELSE start, pong |-> pg,
          branch |-> "flip"]

pingpong_clamps(past, t, d, sp, pg, start, end) ==
    IF ~past
    THEN LET to == t + d * SpeedVal(sp) * pong_signum(pg)
         IN  [time |-> IF to > end THEN end
                       ELSE IF to < start THEN start ELSE to,
              pong |-> pg, branch |-> "step"]
    ELSE LET new_pong == ~pg
         IN  [time |-> IF new_pong THEN end ELSE start, pong |-> new_pong,
              branch |-> "flip"]

\* LoopStyle::PingPong arm
pingpong_arm(past, t, d, sp, pg, start, end) ==
    IF ~past
    THEN [time |-> t + d * SpeedVal(sp) * pong_signum(pg), pong |-> pg,
          branch |-> "step"]
    ELSE LET new_pong == ~pg
         IN  [time |-> IF new_pong THEN end ELSE start, pong |-> new_pong,
              branch |-> "flip"]

advance_flips_on_snap(ts, ls, t, sp, p, pg, d) ==
    IF advance_returns_early(ts, p)
    THEN [time |-> t, pong |-> pg, branch |-> "noop", panic |-> FALSE]
    ELSE IF ~IsSome(start_time(ts)) \/ ~IsSome(end_time(ts))
    THEN [time |-> t, pong |-> pg, branch |-> "panic", panic |-> TRUE]
    ELSE
      LET start == Head(start_time(ts))
          end == Head(end_time(ts))
          reversed == signum(sp) < 0
          past == past_boundary(reversed, pg, start, end, t)
          restart == loop_time_start(reversed, start, end)
      IN  CASE ls = "Once" ->
                 LET r == once_arm(past, t, d, sp)
                 IN  [time |-> r.time, pong |-> pg, branch |-> r.branch,
                      panic |-> FALSE]
            [] ls = "Loop" ->
                 LET r == loop_arm(past, t, d, sp, restart)
                 IN  [time |-> r.time, pong |-> IF past THEN ~pg ELSE pg,
                      branch |-> r.branch, panic |-> FALSE]
            [] ls = "PingPong" ->
                 LET r == pingpong_arm(past, t, d, sp, pg, start, end)
                 IN  [time |-> r.time, pong |-> r.pong, branch |-> r.branch,
                      panic |-> FALSE]

\* the whole of advance as a function of the fields it reads; the result is
\* the written-back time and pong, the arm taken, and whether an unwrap
\* failed
advance(ts, ls, t, sp, p, pg, d) ==
    IF advance_returns_early(ts, p)
    THEN [time |-> t, pong |-> pg, branch |-> "noop", panic |-> FALSE]
    ELSE IF ~IsSome(start_time(ts)) \/ ~IsSome(end_time(ts))
    THEN [time |-> t, pong |-> pg, branch |-> "panic", panic |-> TRUE]
    ELSE
      LET start == Head(start_time(ts))
          end == Head(end_time(ts))
          direction == signum(sp)
          reversed == direction < 0
          past == past_boundary(reversed, pg, start, end, t)
          restart == loop_time_start(reversed, start, end)
      IN  CASE ls = "Once" ->
                 LET r == once_arm(past, t, d, sp)
                 IN  [time |-> r.time, pong |-> pg, branch |-> r.branch,
                      panic |-> FALSE]
            [] ls = "Loop" ->
                 LET r == loop_arm(past, t, d, sp, restart)
                 IN  [time |-> r.time, pong |-> pg, branch |-> r.branch,
                      panic |-> FALSE]
            [] ls = "PingPong" ->
                 LET r == pingpong_arm(past, t, d, sp, pg, start, end)
                 IN  [time |-> r.time, pong |-> r.pong, branch |-> r.branch,
                      panic |-> FALSE]

\* -------------------------------------------------------------------- state
\* The fields of a track-set are public, so a track-set can be built with
\* any combination of values; Default::default() is one of them.
InitFields ==
    /\ loop_style \in LoopStyle
    /\ time \in TimeRange
    /\ speed \in SpeedSet
    /\ paused \in BOOLEAN
    /\ pong \in BOOLEAN
    /\ panicked = FALSE
    /\ lastOp = "new"
    /\ lastD = 0
    /\ pre = Fields
    /\ branch = "none"
    /\ frozen = 0

TwinOff == [on |-> FALSE, time |-> 0, pong |-> FALSE]

NoQuery == [is_empty |-> TRUE, start_time |-> None, end_time |-> None,
            duration |-> None]

\* advance reads the tracks through is_empty, start_time and end_time only
Init ==
    /\ tracks \in OneTrack \cup EmptyGroups
    /\ InitFields
    /\ twin = TwinOff
    /\ query = NoQuery

InitTwin ==
    /\ tracks \in OneTrack
    /\ InitFields
    /\ twin = [on |-> TRUE, time |-> time, pong |-> ~pong]
    /\ query = NoQuery

\* ------------------------------------------------------------------ actions
Advance_sets_paused(d) ==
    LET r == advance(tracks, loop_style, time, speed, paused, pong, d)
    IN  /\ ~panicked
        /\ r.time \in TimeRange
        /\ time' = r.time
        /\ pong' = r.pong
        /\ paused' = (paused \/ r.branch = "freeze")
        /\ panicked' = r.panic
        /\ lastOp' = "advance"
        /\ lastD' = d
        /\ pre' = Fields
        /\ branch' = r.branch
        /\ frozen' = frozen
        /\ UNCHANGED <<tracks, loop_style, speed, twin, query>>

Advance(d) ==
    LET r == advance(tracks, loop_style, time, speed, paused, pong, d)
        r2 == advance(tracks, loop_style, twin.time, speed, paused,
                      twin.pong, d)
        found_past ==
            /\ ~paused
            /\ IsSome(start_time(tracks)) /\ IsSome(end_time(tracks))
            /\ loop_style = "Once"
            /\ past_boundary(signum(speed) < 0, pong,
                             Head(start_time(tracks)),
                             Head(end_time(tracks)), time)
    IN  /\ ~panicked
        /\ r.time \in TimeRange
        /\ twin.on => r2.time \in TimeRange
        /\ time' = r.time
        /\ pong' = r.pong
        /\ panicked' = (r.panic \/ (twin.on /\ r2.panic))
        /\ lastOp' = "advance"
        /\ lastD' = d
        /\ pre' = Fields
        /\ branch' = r.branch
        /\ frozen' = IF found_past /\ frozen < 2 THEN frozen + 1 ELSE frozen
        /\ twin' = IF twin.on
                   THEN [on |-> TRUE, time |-> r2.time, pong |-> r2.pong]
                   ELSE twin
        /\ UNCHANGED <<tracks, loop_style, speed, paused, query>>

\* a write through paused_mut by the method op
write_paused(op, b) ==
    /\ ~panicked
    /\ paused' = b
    /\ lastOp' = op
    /\ lastD' = 0
    /\ pre' = Fields
    /\ branch' = "none"
    /\ UNCHANGED <<tracks, loop_style, time, speed, pong, panicked,
                   frozen, twin, query>>

pause == write_paused("pause", TRUE)

play == write_paused("play", FALSE)

toggle_pause_sets == write_paused("toggle_pause", TRUE)

toggle_pause == write_paused("toggle_pause", ~paused)

Next ==
    \/ \E d \in DeltaSet : Advance(d)
    \/ pause
    \/ play
    \/ toggle_pause

Spec == Init /\ [][Next]_vars

\* ---------------------------------------------- the queries on any track-set
\* Default::default() of one.rs, but for the tracks
default ==
    [loop_style |-> "Once", time |-> 0, speed |-> [neg |-> FALSE, mag |-> 1],
     paused |-> FALSE, pong |-> FALSE]

InitGroup ==
    /\ tracks \in Groups
    /\ loop_style = default.loop_style
    /\ time = default.time
    /\ speed = default.speed
    /\ paused = default.paused
    /\ pong = default.pong
    /\ panicked = FALSE
    /\ lastOp = "new"
    /\ lastD = 0
    /\ pre = Fields
    /\ branch = "none"
    /\ frozen = 0
    /\ twin = TwinOff
    /\ query = NoQuery

\* is_empty(), start_time(), end_time() and duration() called in a row
Query ==
    /\ lastOp = "new"
    /\ query' = [is_empty |-> is_empty(tracks),
                 start_time |-> start_time(tracks),
                 end_time |-> end_time(tracks),
                 duration |-> duration(tracks)]
    /\ lastOp' = "query"
    /\ pre' = Fields
    /\ UNCHANGED <<tracks, loop_style, time, speed, paused, pong, panicked,
                   lastD, branch, frozen, twin>>

NextGroup == Query

SpecGroup == InitGroup /\ [][NextGroup]_vars

SpecTwin == InitTwin /\ [][Next]_vars

TypeOK ==
    /\ tracks \in Groups
    /\ loop_style \in LoopStyle
    /\ time \in TimeRange
    /\ speed \in SpeedSet
    /\ paused \in BOOLEAN
    /\ pong \in BOOLEAN
    /\ panicked \in BOOLEAN

\* --------------------------------- a default track-set and its owner's keys
InitDefault ==
    /\ tracks = <<<<>>>>
    /\ loop_style = default.loop_style
    /\ time = default.time
    /\ speed = default.speed
    /\ paused = default.paused
    /\ pong = default.pong
    /\ panicked = FALSE
    /\ lastOp = "new"
    /\ lastD = 0
    /\ pre = Fields
    /\ branch = "none"
    /\ frozen = 0
    /\ twin = TwinOff
    /\ query = NoQuery

\* the owner appends a key to the public spline of an AnimationSplineOne
push_key(k) ==
    /\ ~panicked
    /\ Len(tracks) = 1
    /\ Len(tracks[1]) < MaxTrackLen
    /\ tracks' = <<Append(tracks[1], k)>>
    /\ lastOp' = "spline"
    /\ lastD' = 0
    /\ pre' = Fields
    /\ branch' = "none"
    /\ UNCHANGED <<loop_style, time, speed, paused, pong, panicked,
                   frozen, twin, query>>

NextOwner ==
    \/ Next
    \/ \E k \in Keys : push_key(k)

SpecDefault == InitDefault /\ [][NextOwner]_vars

\* ------------------------------------- forward runs from inside the key range
Sorted(t) == \A i, j \in DOMAIN t : i <= j => t[i] <= t[j]

InitRun ==
    /\ tracks \in {ts \in OneTrack : ts[1] # <<>> /\ Sorted(ts[1])}
    /\ InitFields
    /\ loop_style \in {"Loop", "PingPong"}
    /\ SpeedVal(speed) > 0
    /\ ~pong
    /\ Head(start_time(tracks)) <= time
    /\ time <= Head(end_time(tracks))
    /\ twin = TwinOff
    /\ query = NoQuery

\* the host scheduler passes elapsed time, which is not negative
NextRun ==
    \/ \E d \in 0..MaxDelta : Advance(d)
    \/ pause
    \/ play
    \/ toggle_pause

SpecRun == InitRun /\ [][NextRun]_vars

\* ---------------------------------------------- advance called on every tick
InitLive ==
    /\ tracks \in {ts \in OneTrack : ts[1] # <<>>}
    /\ InitFields
    /\ loop_style \in {"Loop", "PingPong"}
    /\ SpeedVal(speed) # 0
    /\ ~pong
    /\ ~paused
    /\ twin = TwinOff
    /\ query = NoQuery

\* every tick takes some time
Tick == \E d \in 1..MaxDelta : Advance(d)

NextLive == Tick

\* the host scheduler calls advance once per tick, for ever
SpecLive == InitLive /\ [][NextLive]_vars /\ WF_vars(Tick)

\* ------------------------------------------------------------------- claims
Acted == lastOp = "advance"

\* an advance that got past its early return
Effective == Acted /\ ~is_empty(pre.tracks) /\ ~pre.paused

Start == Head(start_time(pre.tracks))
End == Head(end_time(pre.tracks))
Step == lastD * SpeedVal(pre.speed)

\* C1: every advance(d) made while paused leaves time and pong as they were,
\* whatever the tracks, loop_style, speed, pong, time and d.
C1_PausedAdvanceIsNoOp ==
    (Acted /\ pre.paused) => (time = pre.time /\ pong = pre.pong)

C1_Witness ==
    /\ Acted /\ pre.paused /\ ~is_empty(pre.tracks)
    /\ lastD # 0 /\ SpeedVal(pre.speed) # 0
    /\ pre.loop_style = "PingPong" /\ pre.time > End

\* C2: when every track has no control point, is_empty() is true,
\* start_time(), end_time() and duration() are absent, and advance(d)
\* changes neither time nor pong.
C2_EmptyTrackSet ==
    (\A i \in DOMAIN tracks : tracks[i] = <<>>) =>
        /\ is_empty(tracks)
        /\ start_time(tracks) = None
        /\ end_time(tracks) = None
        /\ duration(tracks) = None
        /\ Acted => (time = pre.time /\ pong = pre.pong)

C2_Witness ==
    /\ tracks = <<<<>>, <<>>>>
    /\ Acted /\ ~pre.paused /\ lastD # 0 /\ SpeedVal(pre.speed) # 0

\* C3: under Once, an advance that finds the pre-tick time past the
\* boundary leaves time unchanged, and so does every advance after it.
C3_OnceStaysFrozen ==
    (Acted /\ frozen > 0) => time = pre.time

C3_Witness ==
    /\ Acted /\ frozen = 2 /\ ~pre.paused
    /\ lastD # 0 /\ SpeedVal(pre.speed) # 0
    /\ branch = "freeze" /\ time = pre.time

\* C4: under Loop with positive speed and pong false, an effective
\* advance(d) adds d*speed when the pre-tick time is not greater than
\* end_time, and sets time to start_time, whatever d, when it is greater.
C4_LoopForward ==
    (Effective /\ pre.loop_style = "Loop" /\ SpeedVal(pre.speed) > 0
        /\ ~pre.pong) =>
        IF pre.time <= End THEN time = pre.time + Step ELSE time = Start

C4_Witness ==
    /\ Effective /\ pre.loop_style = "Loop" /\ SpeedVal(pre.speed) > 0
    /\ ~pre.pong /\ pre.time > End /\ Start < End /\ lastD = 1
    /\ time = Start

\* C5: under Loop with negative speed and pong false, an effective advance
\* snaps time to end_time exactly when the pre-tick time is less than
\* start_time; otherwise, also when the pre-tick time is greater than
\* end_time, it adds d*speed.
C5_LoopReversed ==
    (Effective /\ pre.loop_style = "Loop" /\ SpeedVal(pre.speed) < 0
        /\ ~pre.pong) =>
        IF pre.time < Start
        THEN branch = "snap" /\ time = End
        ELSE branch = "step" /\ time = pre.time + Step

C5_Witness ==
    /\ Effective /\ pre.loop_style = "Loop" /\ SpeedVal(pre.speed) < 0
    /\ ~pre.pong /\ pre.time < Start /\ Start < End /\ lastD = 1
    /\ time = End

\* the past-boundary test as the table of (reversed, pong) gives it
C6_Past ==
    IF pre.speed.neg = pre.pong THEN End < pre.time ELSE Start > pre.time

\* C6: under PingPong an effective advance(d) that is not past the boundary
\* selected by (reversed, pong) adds d*speed*(pong ? -1 : +1) and keeps
\* pong; otherwise it flips pong and sets time to end_time when the new
\* pong is true and to start_time when it is false.
C6_PingPong ==
    (Effective /\ pre.loop_style = "PingPong") =>
        IF ~C6_Past
        THEN /\ time = pre.time + Step * (IF pre.pong THEN -1 ELSE 1)
             /\ pong = pre.pong
        ELSE /\ pong = ~pre.pong
             /\ time = IF pong THEN End ELSE Start

C6_Witness ==
    /\ Effective /\ pre.loop_style = "PingPong"
    /\ pre.tracks = <<<<0, 1>>>> /\ SpeedVal(pre.speed) = 1
    /\ ~pre.pong /\ pre.time = 2
    /\ pong /\ time = 1

\* C7: under PingPong, for either sign of a non-zero speed, the advance
\* that detects a boundary crossing sets time to the boundary that was
\* crossed, never to the opposite one.
C7_PingPongTurnsAtCrossedBoundary ==
    (Effective /\ pre.loop_style = "PingPong" /\ branch = "flip"
        /\ SpeedVal(pre.speed) # 0 /\ Start < End) =>
        /\ pre.time > End => time = End
        /\ pre.time < Start => time = Start

\* C8: under Once and Loop, two track-sets that differ in pong only and
\* receive the same advance calls have the same time after every call.
C8_PongDoesNotInfluenceTime ==
    (twin.on /\ loop_style \in {"Once", "Loop"}) => twin.time = time

\* C9: advance leaves loop_style, speed, paused and the tracks unchanged.
C9_AdvanceFrame ==
    Acted =>
        /\ loop_style = pre.loop_style
        /\ speed = pre.speed
        /\ paused = pre.paused
        /\ tracks = pre.tracks

C9_Witness ==
    /\ Effective /\ branch = "flip"
    /\ time # pre.time /\ pong # pre.pong

\* C10: pause() gives paused = true, play() gives paused = false,
\* toggle_pause() gives the negation of the previous paused; each leaves
\* time, pong, speed, loop_style and the tracks unchanged.
C10_PlaybackControls ==
    /\ lastOp = "pause" => paused
    /\ lastOp = "play" => ~paused
    /\ lastOp = "toggle_pause" => paused = ~pre.paused
    /\ lastOp \in {"pause", "play", "toggle_pause"} =>
          /\ time = pre.time
          /\ pong = pre.pong
          /\ speed = pre.speed
          /\ loop_style = pre.loop_style
          /\ tracks = pre.tracks

C10_Witness ==
    /\ lastOp = "toggle_pause" /\ pre.paused /\ ~paused
    /\ time # 0 /\ pong

\* the non-empty tracks, their first and their last key times
Filled == {i \in DOMAIN tracks : tracks[i] # <<>>}
Firsts == {tracks[i][1] : i \in Filled}
Lasts == {tracks[i][Len(tracks[i])] : i \in Filled}
SetMin(S) == CHOOSE m \in S : \A x \in S : m <= x
SetMax(S) == CHOOSE m \in S : \A x \in S : m >= x

\* the tracks with tracks i and j exchanged
Swapped(i, j) ==
    [k \in DOMAIN tracks |->
        IF k = i THEN tracks[j] ELSE IF k = j THEN tracks[i] ELSE tracks[k]]

\* C11: with at least one non-empty track, start_time() is the minimum of
\* the first key times and end_time() the maximum of the last key times of
\* the non-empty tracks; empty tracks among them change nothing.
C11_StartEndOverTracks ==
    (lastOp = "query" /\ Filled # {}) =>
        /\ query.start_time = Some(SetMin(Firsts))
        /\ query.end_time = Some(SetMax(Lasts))

C11_Witness ==
    /\ lastOp = "query"
    /\ tracks = <<<<1, 1>>, <<0, 0>>>>
    /\ query.start_time = Some(0) /\ query.end_time = Some(1)

\* C12: whenever is_empty() is false, start_time() and end_time() are
\* present, and no sequence of advance, pause, play and toggle_pause calls
\* makes an unwrap of advance fail.
C12_UnwrapsNeverFail ==
    /\ ~panicked
    /\ branch # "panic"
    /\ ~is_empty(tracks) =>
          IsSome(start_time(tracks)) /\ IsSome(end_time(tracks))

C12_Witness ==
    /\ Effective /\ branch = "step" /\ ~panicked
    /\ tracks = <<<<1, 0>>>>

\* C13: for a non-empty track-set duration() is present, is the absolute
\* difference of start_time and end_time, is never negative, and stays the
\* same when tracks are exchanged.
C13_Duration ==
    (lastOp = "query" /\ Filled # {}) =>
        /\ IsSome(query.duration)
        /\ Head(query.duration) = Abs(SetMin(Firsts) - SetMax(Lasts))
        /\ Head(query.duration) >= 0
        /\ \A i, j \in DOMAIN tracks :
              duration(Swapped(i, j)) = query.duration

C13_Witness ==
    /\ lastOp = "query"
    /\ tracks = <<<<0, 0>>, <<1, 1>>>>
    /\ query.duration = Some(1)

\* the past-boundary test of the table of (reversed, pong), on the fields as
\* they are now
PastNow ==
    IF speed.neg = pong
    THEN Head(end_time(tracks)) < time
    ELSE Head(start_time(tracks)) > time

\* the sign the step of the next advance carries
SignNow == IF loop_style = "PingPong" /\ pong THEN -1 ELSE 1

\* the next call is an advance that gets past its early return
EffectiveNext == lastOp' = "advance" /\ ~is_empty(tracks) /\ ~paused

\* C14: an advance whose pre-tick time is not past the boundary adds the
\* full d*speed (with the pong sign under PingPong), also when the result
\* lies beyond the boundary; under Loop and PingPong the advance right after
\* such an overshoot performs the snap.
C14_OneTickLatency ==
    [][EffectiveNext =>
         /\ ~PastNow =>
               time' = time + lastD' * SpeedVal(speed) * SignNow
         /\ (Acted /\ branch = "step" /\ PastNow
                 /\ loop_style \in {"Loop", "PingPong"}) =>
               /\ branch' \in {"snap", "flip"}
               /\ time' \in {Head(start_time(tracks)),
                              Head(end_time(tracks))}]_vars

C14_Witness ==
    /\ Effective /\ branch = "step" /\ loop_style = "PingPong"
    /\ ~pong /\ ~speed.neg
    /\ pre.time <= End /\ time > End /\ PastNow

\* C19: under Once and Loop advance never changes pong, also on the tick
\* that freezes or snaps the cursor.
C19_PongOnlyUnderPingPong ==
    (Acted /\ pre.loop_style \in {"Once", "Loop"}) => pong = pre.pong

C19_Witness ==
    /\ Effective /\ pre.loop_style = "Loop" /\ branch = "snap"
    /\ pre.pong /\ pong /\ time # pre.time

\* C20: whenever start_time <= end_time, an advance that snapped time to a
\* boundary (under Loop or PingPong, any sign of speed, any pong) is not
\* followed by another snap: the next advance adds d*speed (with the pong
\* sign under PingPong).
C20_NoSnapAfterSnap ==
    [][(EffectiveNext /\ Acted /\ branch \in {"snap", "flip"}
          /\ Head(start_time(tracks)) <= Head(end_time(tracks))) =>
         /\ branch' = "step"
         /\ time' = time + lastD' * SpeedVal(speed) * SignNow]_vars

C20_Witness ==
    /\ Effective /\ branch = "flip" /\ speed.neg
    /\ tracks = <<<<0>>>> /\ time = 0 /\ pre.time # 0

\* C15: a default AnimationSplineOne has an empty track, Once, time 0,
\* speed 1, paused false and pong false; it is empty, and as long as the
\* owner has added no key every call leaves time at 0 and pong false.
C15_DefaultStaysAtZero ==
    /\ lastOp = "new" =>
          /\ tracks = <<<<>>>> /\ loop_style = "Once" /\ time = 0
          /\ speed = [neg |-> FALSE, mag |-> 1] /\ ~paused /\ ~pong
    /\ tracks = <<<<>>>> =>
          /\ is_empty(tracks)
          /\ time = 0 /\ ~pong /\ ~panicked

C15_Witness ==
    /\ tracks = <<<<>>>> /\ Acted /\ ~pre.paused /\ lastD = 1
    /\ time = 0 /\ ~pong

\* C16: under Loop with speed > 0, pong false and sorted keys, from a time
\* inside [start_time, end_time] and with 0 <= d <= MaxDelta on every
\* advance, start_time <= time <= end_time + MaxDelta*speed always.
C16_LoopStaysInRange ==
    loop_style = "Loop" =>
        /\ Head(start_time(tracks)) <= time
        /\ time <= Head(end_time(tracks)) + MaxDelta * SpeedVal(speed)

C16_Witness ==
    /\ loop_style = "Loop" /\ Effective /\ branch = "step"
    /\ time = End + MaxDelta * SpeedVal(speed)

\* C17: under PingPong with speed > 0 and sorted keys, from a time inside
\* [start_time, end_time] with pong false and 0 <= d <= MaxDelta on every
\* advance, start_time - MaxDelta*speed <= time <= end_time +
\* MaxDelta*speed always, pong flips to true only on a crossing of end_time
\* and to false only on a crossing of start_time.
C17_PingPongStaysInRange ==
    loop_style = "PingPong" =>
        /\ Head(start_time(tracks)) - MaxDelta * SpeedVal(speed) <= time
        /\ time <= Head(end_time(tracks)) + MaxDelta * SpeedVal(speed)
        /\ (Acted /\ pong /\ ~pre.pong) => pre.time > End
        /\ (Acted /\ ~pong /\ pre.pong) => pre.time < Start

C17_Witness ==
    /\ loop_style = "PingPong" /\ Effective
    /\ ~pong /\ pre.pong
    /\ pre.time = Start - MaxDelta * SpeedVal(speed) /\ time = Start
    /\ Start < End

\* C18: on a non-empty, unpaused track-set with non-zero speed and pong
\* false, when advance is called for ever with d >= 1, the cursor is snapped
\* again and again under Loop and pong flips again and again under PingPong.
C18_KeepsCycling ==
    []<>(\/ loop_style = "Loop" /\ branch = "snap"
         \/ loop_style = "PingPong" /\ branch = "flip")

C18_Witness ==
    /\ Effective /\ loop_style = "PingPong" /\ branch = "flip"
    /\ speed.neg /\ ~pong /\ pre.pong /\ Start < End

=============================================================================
